---- MODULE Spec2Model ----
(***************************************************************************)
(* A model of lib/client.js of node-xmlrpc: the Client constructor (the    *)
(* normalisation of its options), methodCall with the handlers it          *)
(* registers on the request and on the deserializer, getCookie and         *)
(* setCookie.                                                              *)
(*                                                                         *)
(* JavaScript values are tagged records; strings are sequences of          *)
(* characters (a token of several characters where its inside is never     *)
(* looked at).                                                             *)
(***************************************************************************)
EXTENDS Naturals, Sequences, FiniteSets, TLC

VARIABLES
  constructed,  \* TRUE once the constructor has returned
  ctorArgs,     \* the arguments the constructor was (or will be) called with
  client,       \* this.options, this.isSecure, this.headersProcessors.processors, this.cookies
  jar,          \* the name -> value map of this.cookies
  calls,        \* one record per methodCall invocation: its closure and its history
  wire,         \* the requests handed to the transport; the last sent request
  lastOp        \* the last public operation or handler that ran, and how it returned

vars == <<constructed, ctorArgs, client, jar, calls, wire, lastOp>>

----------------------------------------------------------------------------
(* JavaScript values *)

Undef    == [t |-> "undefined"]
Null     == [t |-> "null"]
Str(s)   == [t |-> "string", s |-> s]
Num(n)   == [t |-> "number", n |-> n]
Bool(b)  == [t |-> "boolean", b |-> b]

\* !v is FALSE
Truthy(v) ==
  CASE v.t = "string"  -> v.s # <<>>
    [] v.t = "number"  -> v.n # 0
    [] v.t = "boolean" -> v.b
    [] OTHER           -> FALSE

\* v == null
IsNullish(v) == v.t \in {"undefined", "null"}

\* decimal digits of a port number
Digits(n) ==
  CASE n = 0   -> <<"0">>
    [] n = 8   -> <<"8">>
    [] n = 80  -> <<"8", "0">>
    [] n = 443 -> <<"4", "4", "3">>

\* the string that '+' concatenates for v
ToStr(v) ==
  CASE v.t = "string" -> v.s
    [] v.t = "number" -> Digits(v.n)
    [] v.t = "null"   -> <<"null">>
    [] OTHER          -> <<"undefined">>

\* a || b
OrElse(a, b) == IF Truthy(a) THEN a ELSE b

----------------------------------------------------------------------------
(* url.parse *)

\* the least index >= from at which one of chs occurs in s, or Len(s) + 1
IndexOfAny(s, chs, from) ==
  IF \E i \in from..Len(s) : s[i] \in chs
    THEN CHOOSE i \in from..Len(s) :
           s[i] \in chs /\ \A j \in from..(i - 1) : s[j] \notin chs
    ELSE Len(s) + 1

StrOrNull(s) == IF s = <<>> THEN Null ELSE Str(s)

\* The Url object of a string with a "//" after its protocol.  host holds
\* the port, path holds the query string; hostname, port and pathname do not.
UrlFields(protocol, auth, pcolon, rawPath, search) ==
  [protocol |-> Str(protocol),
   host     |-> Str(auth),
   hostname |-> Str(SubSeq(auth, 1, pcolon - 1)),
   port     |-> StrOrNull(SubSeq(auth, pcolon + 1, Len(auth))),
   pathname |-> Str(IF rawPath = <<>> THEN <<"/">> ELSE rawPath),
   path     |-> Str((IF rawPath = <<>> THEN <<"/">> ELSE rawPath) \o search)]

UrlAuthority(u, colon, authEnd, auth, query) ==
  UrlFields(SubSeq(u, 1, colon), auth, IndexOfAny(auth, {":"}, 1),
            SubSeq(u, authEnd, query - 1), SubSeq(u, query, Len(u)))

UrlAbsolute(u, colon, authEnd) ==
  UrlAuthority(u, colon, authEnd, SubSeq(u, colon + 3, authEnd - 1),
               IndexOfAny(u, {"?"}, authEnd))

\* The Url object of a string without host
UrlRelative(u, query) ==
  [protocol |-> Null,
   host     |-> Null,
   hostname |-> Null,
   port     |-> Null,
   pathname |-> StrOrNull(SubSeq(u, 1, query - 1)),
   path     |-> StrOrNull(u)]

UrlSlashed(u, colon) ==
  /\ colon + 2 <= Len(u)
  /\ u[colon + 1] = "/"
  /\ u[colon + 2] = "/"
  /\ \A j \in 1..(colon - 1) : u[j] \notin {"/", "?"}

UrlParseFrom(u, colon) ==
  IF UrlSlashed(u, colon)
    THEN UrlAbsolute(u, colon, IndexOfAny(u, {"/", "?"}, colon + 3))
    ELSE UrlRelative(u, IndexOfAny(u, {"?"}, 1))

\* url.parse(u)
UrlParse(u) == UrlParseFrom(u, IndexOfAny(u, {":"}, 1))

----------------------------------------------------------------------------
(* The constructor *)

DefaultHeaderNames ==
  {"User-Agent", "Content-Type", "Accept", "Accept-Charset", "Connection",
   "Accept-Encoding", "Content-Encoding"}

HeaderNames == DefaultHeaderNames \cup {"Authorization", "Cookie"}

NoHeaders == [h \in HeaderNames |-> Undef]

\* a basic_auth object
Auth(user, pass) == [t |-> "object", user |-> user, pass |-> pass]

\* an options object none of whose fields is set
NoOptions ==
  [host |-> Undef, port |-> Undef, url |-> Undef, path |-> Undef,
   cookies |-> Undef, keepAlive |-> Undef, gzip |-> Undef,
   userAgent |-> Undef, headers |-> NoHeaders, basic_auth |-> Undef,
   encoding |-> Undef, responseEncoding |-> Undef, method |-> Undef]

PackageUserAgent == <<"NodeJS XML-RPC Client/", "version">>

\* new Buffer(s).toString('base64')
Base64(s) == <<"base64(">> \o s \o <<")">>

\* options = url.parse(options); options.host = options.hostname;
\* options.path = options.pathname
FromParsed(parsed) ==
  [NoOptions EXCEPT !.host = parsed.hostname,
                    !.port = parsed.port,
                    !.path = parsed.pathname]

FromString(u) == FromParsed(UrlParse(u))

\* if (typeof options.url !== 'undefined') { ... }
ApplyParsedUrl(o, parsedUrl) ==
  [o EXCEPT !.host = parsedUrl.hostname,
            !.path = parsedUrl.pathname,
            !.port = parsedUrl.port]

ApplyUrl(o) ==
  IF o.url.t # "undefined" THEN ApplyParsedUrl(o, UrlParse(ToStr(o.url))) ELSE o

\* a constructor that leaves a missing host missing
HostDefaultMissing(o) == o

HostDefault(o) ==
  IF ~Truthy(o.host) THEN [o EXCEPT !.host = Str(<<"localhost">>)] ELSE o

PortDefault(o, isSecure) ==
  IF ~Truthy(o.port)
    THEN [o EXCEPT !.port = IF isSecure THEN Num(443) ELSE Num(80)]
    ELSE o

\* if (! options.path) { options.path = '/' }
PathOrRoot(o) ==
  IF ~Truthy(o.path) THEN [o EXCEPT !.path = Str(<<"/">>)] ELSE o

\* if (options.path && options.path.charAt(0) !== '/') { ... }
LeadingSlash(o) ==
  IF Truthy(o.path) /\ Head(o.path.s) # "/"
    THEN [o EXCEPT !.path = Str(<<"/">> \o o.path.s)]
    ELSE o

PathDefault(o) == LeadingSlash(PathOrRoot(o))

\* options.url = (isSecure ? 'https://' : 'http://') + host + ':' + port + path
CanonicalUrl(o, isSecure) ==
  (IF isSecure THEN <<"h", "t", "t", "p", "s", ":", "/", "/">>
               ELSE <<"h", "t", "t", "p", ":", "/", "/">>)
    \o ToStr(o.host) \o <<":">> \o ToStr(o.port) \o ToStr(o.path)

\* var headers = { ... }, with the two compression headers
DefaultHeaders(o) ==
  [h \in DefaultHeaderNames |->
     CASE h = "User-Agent"       -> OrElse(o.userAgent, Str(PackageUserAgent))
       [] h = "Content-Type"     -> Str(<<"text/xml">>)
       [] h = "Accept"           -> Str(<<"text/xml">>)
       [] h = "Accept-Charset"   -> Str(<<"UTF8">>)
       [] h = "Connection"       -> Str(<<"Keep-Alive">>)
       [] h = "Accept-Encoding"  -> IF Truthy(o.gzip) THEN Str(<<"gzip">>) ELSE Undef
       [] h = "Content-Encoding" -> IF o.gzip = Str(<<"both">>) THEN Str(<<"gzip">>) ELSE Undef]

\* if (options.headers.Authorization == null && options.basic_auth != null && ...)
BasicAuth(o) ==
  IF /\ IsNullish(o.headers["Authorization"])
     /\ ~IsNullish(o.basic_auth)
     /\ ~IsNullish(o.basic_auth.user)
     /\ ~IsNullish(o.basic_auth.pass)
    THEN [o EXCEPT !.headers["Authorization"] =
            Str(<<"Basic ">> \o Base64(ToStr(o.basic_auth.user) \o <<":">>
                                         \o ToStr(o.basic_auth.pass)))]
    ELSE o

\* a merge in which the defaults overwrite the caller's headers
MergeHeadersDefaultsWin(o, defaults) ==
  [o EXCEPT !.headers =
     [h \in HeaderNames |->
        IF h \in DefaultHeaderNames /\ defaults[h] # Undef THEN defaults[h] ELSE o.headers[h]]]

\* for (var attribute in headers) { if (options.headers[attribute] === undefined) ... }
MergeHeaders(o, defaults) ==
  [o EXCEPT !.headers =
     [h \in HeaderNames |->
        IF h \in DefaultHeaderNames /\ defaults[h] # Undef /\ o.headers[h] = Undef
          THEN defaults[h]
          ELSE o.headers[h]]]

\* options.keepAlive = options.keepAlive || 0; options.gzip = options.gzip || false
FlagDefaults(o) ==
  [o EXCEPT !.keepAlive = OrElse(o.keepAlive, Num(0)),
            !.gzip      = OrElse(o.gzip, Bool(FALSE))]

WithUrl(o, isSecure) == [o EXCEPT !.url = Str(CanonicalUrl(o, isSecure))]

WithHeaders(o) == MergeHeaders(BasicAuth(o), DefaultHeaders(o))

\* options.method = 'POST'
WithMethod(o) == [o EXCEPT !.method = Str(<<"POST">>)]

\* the options object the constructor works on
InputOptions(input) == IF input.t = "string" THEN FromString(input.s) ELSE input.o

\* The options the constructor leaves in this.options
Normalize(input, isSecure) ==
  WithMethod(WithHeaders(WithUrl(FlagDefaults(PathDefault(PortDefault(HostDefault(
    ApplyUrl(InputOptions(input))), isSecure))), isSecure)))

\* function Client(options, isSecure)
ClientOf(options, isSecure) ==
  [options    |-> options,
   isSecure   |-> isSecure,
   processors |-> IF Truthy(options.cookies) THEN <<"cookies">> ELSE <<>>,
   cookies    |-> Truthy(options.cookies)]

Client(input, isSecure) == ClientOf(Normalize(input, isSecure), isSecure)

----------------------------------------------------------------------------
(* Bounds and the inputs the model draws from *)

MaxCalls == 2

CallIds == 1..MaxCalls

CookieNames == {"a", "b"}

\* the order in which the jar lists its names
CookieOrder == <<"a", "b">>

Absent == "absent"

\* the values setCookie is called with
LocalValues == {"1"}

\* the value the server gives to cookie a in its response to call c
ServerValue(c) == IF c = 1 THEN "s1" ELSE IF c = 2 THEN "s2" ELSE "s3"

\* the Set-Cookie entries the response to call c may carry
SetCookies(c) == {<<>>, << <<"a", ServerValue(c)>> >>}

\* params the Serializer can encode, and params it cannot
ParamKinds == {"encodable", "unencodable"}

\* what the deserializer hands to its callback: (null, value) or (error)
DeserPairs == {<<"null", "value">>, <<"ProtocolError", "undefined">>}

NoPair == <<>>

\* this.err and this.res of the request of call c at its end event
Responses(c) ==
  {[err |-> TRUE, statusCode |-> 0, setCookie |-> <<>>]}
    \cup [err : {FALSE}, statusCode : {200}, setCookie : SetCookies(c)]
    \cup [err : {FALSE}, statusCode : {404}, setCookie : {<< <<"a", ServerValue(c)>> >>}]

NoRes == [err |-> FALSE, statusCode |-> 0, setCookie |-> <<>>]

NoRequest ==
  [url |-> <<>>, headers |-> NoHeaders, contentLength |-> 0,
   body |-> [sent |-> "nothing", data |-> <<>>]]

NoClient == [options |-> NoOptions, isSecure |-> FALSE, processors |-> <<>>, cookies |-> FALSE]

IdleCall ==
  [pc         |-> "idle",    \* idle, gzip, sent, threw, gzipThrew
   ended      |-> FALSE,     \* var ended
   pendingEnd |-> NoPair,    \* (err, result) held by the 'end' listener of the deserializer callback
   errFired   |-> FALSE,     \* the request emitted 'error'
   endFired   |-> FALSE,     \* the request emitted 'end'
   deserFired |-> FALSE,     \* the deserializer called back
   res        |-> NoRes,     \* this.err, this.res at the end event
   deser      |-> NoPair,    \* what the deserializer called back with
   callbacks  |-> <<>>,      \* the invocations of the user callback, in order
   raised     |-> "none",    \* the exception that left methodCall or one of its handlers
   overwrote  |-> {},        \* history: the names whose setCookie value this call's response replaced
   parsed     |-> <<>>,      \* history: per run of parseResponse, the callbacks invoked before it
   xml        |-> <<>>,      \* var xml
   request    |-> NoRequest] \* the request while it waits for zlib

EmptyJar == [n \in CookieNames |-> Absent]

----------------------------------------------------------------------------
(* The collaborators: Serializer, zlib, Cookies *)

\* Serializer.serializeMethodCall(method, params, options.encoding)
SerializeMethodCall(params) == <<"<", "e-acute", ">">>

\* the bytes of s in UTF-8
Utf8(s) ==
  LET RECURSIVE Enc(_)
      Enc(t) == IF t = <<>> THEN <<>>
                ELSE (IF Head(t) = "e-acute" THEN <<"c3", "a9">> ELSE <<Head(t)>>)
                       \o Enc(Tail(t))
  IN Enc(s)

\* the length of the string in characters, xml.length
ByteLengthInChars(s) == Len(s)

\* Buffer.byteLength(xml, 'utf8')
ByteLength(s) == Len(Utf8(s))

\* the buffer zlib.gzip calls back with
Gzip(s) == <<"1f", "8b">> \o Utf8(s) \o <<"crc", "isize">>

\* Cookies.toString: name=value pairs joined by ';'
RECURSIVE CookieString(_, _)
CookieString(names, j) ==
  IF names = <<>> THEN <<>>
  ELSE LET rest == CookieString(Tail(names), j)
           n    == Head(names)
       IN IF j[n] = Absent THEN rest
          ELSE <<n, "=", j[n]>> \o (IF rest = <<>> THEN <<>> ELSE <<";">> \o rest)

\* Cookies.composeRequest(headers)
CookiesComposeRequest(headers, j) ==
  [headers EXCEPT !["Cookie"] = Str(CookieString(CookieOrder, j))]

\* Cookies.parseResponse(headers): every Set-Cookie entry overwrites its name
RECURSIVE CookiesParseResponse(_, _)
CookiesParseResponse(setCookie, j) ==
  IF setCookie = <<>> THEN j
  ELSE CookiesParseResponse(Tail(setCookie),
                            [j EXCEPT ![Head(setCookie)[1]] = Head(setCookie)[2]])

\* headersProcessors.composeRequest(headers)
RECURSIVE ComposeRequest(_, _, _)
ComposeRequest(processors, headers, j) ==
  IF processors = <<>> THEN headers
  ELSE ComposeRequest(Tail(processors), CookiesComposeRequest(headers, j), j)

\* headersProcessors.parseResponse(headers)
RECURSIVE ParseResponse(_, _, _)
ParseResponse(processors, setCookie, j) ==
  IF processors = <<>> THEN j
  ELSE ParseResponse(Tail(processors), setCookie, CookiesParseResponse(setCookie, j))

----------------------------------------------------------------------------
(* methodCall and the listeners it registers *)

\* callback(err) and callback(err, result)
Invoke(call, pair) == [call EXCEPT !.callbacks = Append(@, pair)]

\* request.on('error', function (err) { ... })
OnError(call) ==
  LET fired == [call EXCEPT !.errFired = TRUE]
  IN IF ~call.ended
       THEN Invoke([fired EXCEPT !.ended = TRUE], <<"TransportError", "undefined">>)
       ELSE fired

\* request.on('end', function () { ... }), the listener methodCall registers
OnEnd(call, res) ==
  LET fired == [call EXCEPT !.endFired = TRUE, !.res = res, !.ended = TRUE]
  IN IF res.err THEN Invoke(fired, <<"ResponseError", "undefined">>)
     ELSE IF res.statusCode = 404 THEN Invoke(fired, <<"NotFound", "undefined">>)
     ELSE [fired EXCEPT !.parsed = Append(@, Len(call.callbacks))]

\* an 'end' listener that never runs parseResponse
OnEndJarSkipped(res, processors, j) == j

\* an 'end' listener that keeps the value an earlier response gave a name
OnEndJarKeepsFirst(res, processors, j) ==
  IF res.err \/ res.statusCode = 404 THEN j
  ELSE [n \in DOMAIN j |->
          IF j[n] \in LocalValues \cup {Absent}
            THEN ParseResponse(processors, res.setCookie, j)[n]
            ELSE j[n]]

\* an 'end' listener that runs parseResponse whatever the response is
OnEndJarAlways(res, processors, j) == ParseResponse(processors, res.setCookie, j)

\* the jar after the 'end' listener of methodCall has run
OnEndJar(res, processors, j) ==
  IF res.err \/ res.statusCode = 404 THEN j
  ELSE ParseResponse(processors, res.setCookie, j)

\* request.on('end', function() { callback(err, result) }), the listener the
\* deserializer callback registers
OnEndDeserialized(call) ==
  IF call.pendingEnd # NoPair THEN Invoke(call, call.pendingEnd) ELSE call

\* a deserializer callback that drops a result that arrives before 'end'
OnDeserializedDropped(call, pair) ==
  LET fired == [call EXCEPT !.deserFired = TRUE, !.deser = pair]
  IN IF call.ended THEN Invoke(fired, pair) ELSE fired

\* the callback handed to deserializer.deserializeMethodResponse
OnDeserialized(call, pair) ==
  LET fired == [call EXCEPT !.deserFired = TRUE, !.deser = pair]
  IN IF call.ended THEN Invoke(fired, pair)
     ELSE [fired EXCEPT !.pendingEnd = pair]

\* request.set('Content-Length', length); request.send(body)
Send(request, length, body) ==
  [count |-> wire.count + 1,
   last  |-> [request EXCEPT !.contentLength = length, !.body = body]]

\* the bytes request.send(body) writes: a string goes out in UTF-8, the
\* encoding the request writes strings in, and a buffer as it is
WireBytes(body) == IF body.sent = "string" THEN Utf8(body.data) ELSE body.data

\* headers handed to request.set before the processors have composed them
ComposedHeadersSkipped == client.options.headers

\* the headers methodCall hands to request.set
ComposedHeaders == ComposeRequest(client.processors, client.options.headers, jar)

\* a methodCall that serializes after it has composed the headers
MethodCallThrowsLate(c) ==
  /\ calls' = [calls EXCEPT ![c].pc = "threw", ![c].raised = "EncodingError"]
  /\ client' = [client EXCEPT !.options.headers = ComposedHeaders]
  /\ lastOp' = [op |-> "methodCall", threw |-> TRUE, ret |-> "undefined"]
  /\ UNCHANGED <<jar, wire>>

MethodCallThrows(c) ==
  /\ calls' = [calls EXCEPT ![c].pc = "threw", ![c].raised = "EncodingError"]
  /\ lastOp' = [op |-> "methodCall", threw |-> TRUE, ret |-> "undefined"]
  /\ UNCHANGED <<client, jar, wire>>

MethodCallRuns(c) ==
  LET xml     == SerializeMethodCall("encodable")
      request == [NoRequest EXCEPT !.url = client.options.url.s,
                                   !.headers = ComposedHeaders]
  IN /\ client' = [client EXCEPT !.options.headers = ComposedHeaders]
     /\ IF client.options.gzip = Str(<<"both">>)
          THEN /\ calls' = [calls EXCEPT ![c].pc = "gzip", ![c].xml = xml,
                                         ![c].request = request]
               /\ UNCHANGED wire
          ELSE /\ calls' = [calls EXCEPT ![c].pc = "sent", ![c].xml = xml]
               /\ wire' = Send(request, ByteLength(xml), [sent |-> "string", data |-> xml])
     /\ lastOp' = [op |-> "methodCall", threw |-> FALSE, ret |-> "undefined"]
     /\ UNCHANGED jar

\* Client.prototype.methodCall
MethodCall(c, params) ==
  /\ constructed
  /\ calls[c].pc = "idle"
  /\ \A d \in CallIds : d < c => calls[d].pc # "idle"
  /\ IF params = "unencodable" THEN MethodCallThrows(c) ELSE MethodCallRuns(c)
  /\ UNCHANGED <<constructed, ctorArgs>>

\* zlib.gzip(xml, function (err, buffer) { ... })
GzipDone(c, failed) ==
  /\ calls[c].pc = "gzip"
  /\ IF failed
       THEN /\ calls' = [calls EXCEPT ![c].pc = "gzipThrew", ![c].raised = "TypeError",
                                      ![c].request = NoRequest]
            /\ UNCHANGED wire
       ELSE /\ calls' = [calls EXCEPT ![c].pc = "sent", ![c].request = NoRequest]
            /\ wire' = Send(calls[c].request, Len(Gzip(calls[c].xml)),
                             [sent |-> "buffer", data |-> Gzip(calls[c].xml)])
  /\ UNCHANGED <<constructed, ctorArgs, client, jar, lastOp>>

\* an 'error' listener whose flag is one variable shared by all invocations
AfterErrorSharedFlag(cs, c) ==
  [d \in DOMAIN cs |-> IF d = c THEN OnError(cs[d]) ELSE [cs[d] EXCEPT !.ended = TRUE]]

\* the invocations after the 'error' listener of c has run: ended and callback
\* are those of the closure of c
AfterError(cs, c) == [cs EXCEPT ![c] = OnError(@)]

\* the request emits 'error'
ErrorEvent(c) ==
  /\ calls[c].pc = "sent"
  /\ ~calls[c].errFired
  /\ calls' = AfterError(calls, c)
  /\ UNCHANGED <<constructed, ctorArgs, client, jar, wire, lastOp>>

\* the value the Set-Cookie entries of res give to n: that of the last entry for n
CarriedValue(res, n) ==
  IF \E i \in 1..Len(res.setCookie) : res.setCookie[i][1] = n
    THEN LET i == CHOOSE k \in 1..Len(res.setCookie) :
                    /\ res.setCookie[k][1] = n
                    /\ \A m \in (k + 1)..Len(res.setCookie) : res.setCookie[m][1] # n
         IN res.setCookie[i][2]
    ELSE Absent

\* the names that hold a value from setCookie and that this response carries
Overwritten(res, j) ==
  {n \in CookieNames : /\ j[n] \in LocalValues
                       /\ ~res.err /\ res.statusCode # 404
                       /\ CarriedValue(res, n) # Absent}

\* 'end' listeners that run in the reverse of the order of registration
EndListenersReversed(call, res) == OnEnd(OnEndDeserialized(call), res)

\* the 'end' listeners of a request, in the order of registration
EndListeners(call, res) == OnEndDeserialized(OnEnd(call, res))

\* the request emits 'end': its listeners run in the order of registration
EndEvent(c, res) ==
  /\ calls[c].pc = "sent"
  /\ ~calls[c].endFired
  /\ calls' = [calls EXCEPT ![c] =
                 [EndListeners(@, res) EXCEPT !.overwrote = Overwritten(res, jar)]]
  /\ jar' = OnEndJar(res, client.processors, jar)
  /\ UNCHANGED <<constructed, ctorArgs, client, wire, lastOp>>

\* the deserializer calls back
DeserializerResult(c, pair) ==
  /\ calls[c].pc = "sent"
  /\ ~calls[c].deserFired
  /\ calls' = [calls EXCEPT ![c] = OnDeserialized(@, pair)]
  /\ UNCHANGED <<constructed, ctorArgs, client, jar, wire, lastOp>>

----------------------------------------------------------------------------
(* getCookie and setCookie *)

\* accessors that never check this.cookies
CookiesOffUnchecked == FALSE

\* if (!this.cookies) { throw ... }
CookiesOff == ~client.cookies

\* Client.prototype.getCookie
GetCookie(n) ==
  /\ constructed
  /\ lastOp' = IF CookiesOff
                 THEN [op |-> "getCookie", threw |-> TRUE, ret |-> "undefined"]
                 ELSE [op |-> "getCookie", threw |-> FALSE, ret |-> jar[n]]
  /\ UNCHANGED <<constructed, ctorArgs, client, jar, calls, wire>>

\* Client.prototype.setCookie
SetCookie(n, v) ==
  /\ constructed
  /\ IF CookiesOff
       THEN /\ lastOp' = [op |-> "setCookie", threw |-> TRUE, ret |-> "undefined"]
            /\ UNCHANGED jar
       ELSE /\ lastOp' = [op |-> "setCookie", threw |-> FALSE, ret |-> "this"]
            /\ jar' = [jar EXCEPT ![n] = v]
  /\ UNCHANGED <<constructed, ctorArgs, client, calls, wire>>

----------------------------------------------------------------------------
(* The specifications *)

UriLocal == <<"h", "t", "t", "p", ":", "/", "/", "h", ":", "8", "/", "p">>

\* the constructor arguments of the clients whose calls are followed
LifecycleArgs ==
  {[input |-> [t |-> "object",
               o |-> [NoOptions EXCEPT !.url = Str(UriLocal), !.cookies = ck, !.gzip = gz]],
    isSecure |-> FALSE] :
     ck \in {Undef, Bool(TRUE)}, gz \in {Undef, Str(<<"both">>)}}

\* the constructor arguments of the clients whose request bodies are followed
BodyArgs ==
  {[input |-> [t |-> "object",
               o |-> [NoOptions EXCEPT !.url = Str(UriLocal), !.encoding = enc,
                                       !.gzip = gz, !.cookies = ck]],
    isSecure |-> FALSE] :
     enc \in {Undef, Str(<<"utf8">>), Str(<<"latin1">>)},
     gz \in {Undef, Str(<<"both">>)},
     ck \in {Undef, Bool(TRUE)}}

Init ==
  /\ ctorArgs \in LifecycleArgs
  /\ constructed = TRUE
  /\ client = Client(ctorArgs.input, ctorArgs.isSecure)
  /\ jar = EmptyJar
  /\ calls = [c \in CallIds |-> IdleCall]
  /\ wire = [count |-> 0, last |-> NoRequest]
  /\ lastOp = [op |-> "construct", threw |-> FALSE, ret |-> "this"]

Next ==
  \/ \E c \in CallIds, params \in ParamKinds : MethodCall(c, params)
  \/ \E c \in CallIds, failed \in BOOLEAN : GzipDone(c, failed)
  \/ \E c \in CallIds : ErrorEvent(c)
  \/ \E c \in CallIds : \E res \in Responses(c) : EndEvent(c, res)
  \/ \E c \in CallIds, pair \in DeserPairs : DeserializerResult(c, pair)
  \/ \E n \in CookieNames : GetCookie(n)
  \/ \E n \in CookieNames, v \in LocalValues : SetCookie(n, v)

Spec == Init /\ [][Next]_vars

\* the building and sending of requests alone, for every request encoding
InitBody ==
  /\ ctorArgs \in BodyArgs
  /\ constructed = TRUE
  /\ client = Client(ctorArgs.input, ctorArgs.isSecure)
  /\ jar = EmptyJar
  /\ calls = [c \in CallIds |-> IdleCall]
  /\ wire = [count |-> 0, last |-> NoRequest]
  /\ lastOp = [op |-> "construct", threw |-> FALSE, ret |-> "this"]

NextBody ==
  \/ \E c \in CallIds, params \in ParamKinds : MethodCall(c, params)
  \/ \E c \in CallIds, failed \in BOOLEAN : GzipDone(c, failed)

SpecBody == InitBody /\ [][NextBody]_vars

----------------------------------------------------------------------------
(* The constructor on its own: every input of a bounded set is constructed *)

Uri(scheme, host, port, path) ==
  scheme \o <<":", "/", "/">> \o host
    \o (IF port = <<>> THEN <<>> ELSE <<":">> \o port) \o path

Http == <<"h", "t", "t", "p">>

Https == <<"h", "t", "t", "p", "s">>

\* URI strings, absolute and relative, with and without port, path and query
UriStrings ==
  {Uri(sc, h, pt, pa) : sc \in {Http, Https}, h \in {<<"h">>},
                         pt \in {<<>>, <<"8">>},
                         pa \in {<<>>, <<"/">>, <<"/", "p">>, <<"/", "p", "?", "q">>}}
    \cup {Uri(Http, <<>>, <<>>, <<"/", "p">>)}
    \cup {<<>>, <<"p">>, <<"/", "p">>, <<"p", "?", "q">>}

Hosts == {Undef, Str(<<>>), Str(<<"h">>)}

Ports == {Undef, Num(0), Num(8), Str(<<"8">>)}

Paths == {Undef, Str(<<>>), Str(<<"/">>), Str(<<"p">>), Str(<<"/", "p">>)}

Urls == {Undef} \cup {Str(u) : u \in UriStrings}

UserHeaderNames == DefaultHeaderNames \cup {"Authorization"}

UserHeaders ==
  {[h \in HeaderNames |-> IF h \in UserHeaderNames THEN f[h] ELSE Undef] :
     f \in [UserHeaderNames -> {Undef, Str(<<"user">>)}]}

Credentials == {Undef, Null, Str(<<>>), Str(<<"x">>)}

BasicAuths == {Undef} \cup {Auth(u, p) : u \in Credentials, p \in Credentials}

\* options that vary in where the server is
LocationOptions ==
  {[NoOptions EXCEPT !.host = h, !.port = pt, !.path = pa, !.url = u] :
     h \in Hosts, pt \in Ports, pa \in Paths, u \in Urls}

\* options that vary in what the headers are made from
HeaderOptions ==
  {[NoOptions EXCEPT !.host = Str(<<"h">>), !.headers = hs, !.basic_auth = ba,
                     !.gzip = gz, !.userAgent = ua] :
     hs \in UserHeaders, ba \in BasicAuths,
     gz \in {Undef, Str(<<"response">>), Str(<<"both">>)},
     ua \in {Undef, Str(<<"agent">>)}}

CtorInputs ==
  {[t |-> "string", s |-> u] : u \in UriStrings}
    \cup {[t |-> "object", o |-> o] : o \in LocationOptions \cup HeaderOptions}

InitCtor ==
  /\ ctorArgs \in [input : CtorInputs, isSecure : BOOLEAN]
  /\ constructed = FALSE
  /\ client = NoClient
  /\ jar = EmptyJar
  /\ calls = [c \in CallIds |-> IdleCall]
  /\ wire = [count |-> 0, last |-> NoRequest]
  /\ lastOp = [op |-> "none", threw |-> FALSE, ret |-> "undefined"]

\* new Client(options, isSecure)
Construct ==
  /\ ~constructed
  /\ constructed' = TRUE
  /\ client' = Client(ctorArgs.input, ctorArgs.isSecure)
  /\ lastOp' = [op |-> "construct", threw |-> FALSE, ret |-> "this"]
  /\ UNCHANGED <<ctorArgs, jar, calls, wire>>

NextCtor == Construct

SpecCtor == InitCtor /\ [][NextCtor]_vars

----------------------------------------------------------------------------
(* Claims about the constructor, checked under SpecCtor *)

\* the headers the caller passed to the constructor
SuppliedHeaders ==
  IF ctorArgs.input.t = "object" THEN ctorArgs.input.o.headers ELSE NoHeaders

\* the basic_auth the caller passed to the constructor
SuppliedAuth ==
  IF ctorArgs.input.t = "object" THEN ctorArgs.input.o.basic_auth ELSE Undef

\* basic_auth.user and basic_auth.pass are both present
HasCredentials ==
  /\ SuppliedAuth.t = "object"
  /\ SuppliedAuth.user.t \notin {"undefined", "null"}
  /\ SuppliedAuth.pass.t \notin {"undefined", "null"}

\* C9: every header the caller supplied keeps the caller's value in the
\* constructed configuration, and the configuration holds an Authorization
\* header that the caller did not supply exactly when basic_auth.user and
\* basic_auth.pass are both present; it is then Basic base64(user:pass).
UserHeadersWin ==
  constructed =>
    /\ \A h \in HeaderNames :
         SuppliedHeaders[h] # Undef => client.options.headers[h] = SuppliedHeaders[h]
    /\ (SuppliedHeaders["Authorization"] = Undef /\ HasCredentials)
         => client.options.headers["Authorization"] =
              Str(<<"Basic ", "base64(">> \o SuppliedAuth.user.s \o <<":">>
                    \o SuppliedAuth.pass.s \o <<")">>)
    /\ (SuppliedHeaders["Authorization"] = Undef /\ ~HasCredentials)
         => client.options.headers["Authorization"] = Undef

\* a constructed client whose caller supplied Authorization, a default header and
\* both credentials
UserHeadersWinWitness ==
  /\ constructed
  /\ HasCredentials
  /\ SuppliedHeaders["Authorization"] = Str(<<"user">>)
  /\ SuppliedHeaders["Content-Type"] = Str(<<"user">>)
  /\ SuppliedHeaders["Accept-Encoding"] = Str(<<"user">>)
  /\ client.options.gzip = Str(<<"both">>)
  /\ client.options.headers["Content-Type"] = Str(<<"user">>)

\* the number a port string denotes
PortNumber(p) == IF p = Str(<<"8">>) THEN Num(8) ELSE p

\* the options object with the host, port and path of a parsed URI string
EquivalentTo(parsed) ==
  [NoOptions EXCEPT !.host = parsed.hostname,
                    !.port = PortNumber(parsed.port),
                    !.path = parsed.pathname]

EquivalentOptions(u) == EquivalentTo(UrlParse(u))

\* o holds a path with a leading '/' and the host, port and path that its URL reads back as
ReadsBack(o, back, isSecure) ==
  /\ o.path.t = "string" /\ o.path.s # <<>> /\ Head(o.path.s) = "/"
  /\ back.protocol = Str(IF isSecure THEN Https \o <<":">> ELSE Http \o <<":">>)
  /\ o.host.t = "string" /\ o.host.s # <<>> /\ back.hostname = o.host
  /\ o.port.t \in {"string", "number"} /\ back.port = Str(ToStr(o.port))
  /\ back.pathname = o.path

SameUrlAndHeaders(o, other) == o.url = other.url /\ o.headers = other.headers

\* C10: the constructed path begins with '/', the canonical URL reads back as
\* scheme://host:port/path with the configuration's non-empty host and port and
\* its path, and a URI string yields the URL and the headers of the options
\* object with the same host, port and path.
CanonicalUrlResolved ==
  constructed =>
    /\ ReadsBack(client.options, UrlParse(client.options.url.s), ctorArgs.isSecure)
    /\ ctorArgs.input.t = "string" =>
         SameUrlAndHeaders(client.options,
                           Client([t |-> "object", o |-> EquivalentOptions(ctorArgs.input.s)],
                                  ctorArgs.isSecure).options)

\* a client constructed from a URI string with a port and a path
CanonicalUrlResolvedWitness ==
  /\ constructed
  /\ ctorArgs.input.t = "string"
  /\ ctorArgs.input.s = Uri(Https, <<"h">>, <<"8">>, <<"/", "p", "?", "q">>)
  /\ client.options.url = Str(Uri(Http, <<"h">>, <<"8">>, <<"/", "p">>))
  /\ ~ctorArgs.isSecure

----------------------------------------------------------------------------
(* Claims about methodCall, getCookie and setCookie, checked under Spec *)

\* the transport completed without error and with a status other than 404
OkResponse(call) == call.endFired /\ ~call.res.err /\ call.res.statusCode # 404

\* the user callback of c is invoked in this step
Invoked(c) == Len(calls'[c].callbacks) > Len(calls[c].callbacks)

\* C1: the user callback of a call is invoked at most once, whatever signals
\* of that call arrive and in whatever order.
CallbackAtMostOnce == \A c \in CallIds : Len(calls[c].callbacks) <= 1

\* C2: a call with no transport error whose response is not a 404 has invoked
\* its callback exactly once, with the pair the deserializer produced, as soon
\* as both the end event and the deserializer result have occurred, and not
\* before, in either order of the two.
DeserializerOutcomeDelivered ==
  \A c \in CallIds :
    (~calls[c].errFired /\ (calls[c].endFired => OkResponse(calls[c])))
      => calls[c].callbacks =
           IF calls[c].endFired /\ calls[c].deserFired THEN <<calls[c].deser>> ELSE <<>>

\* one call completed with the deserializer first, another with the end event first
DeserializerOutcomeDeliveredWitness ==
  \E c, d \in CallIds :
    /\ c # d
    /\ OkResponse(calls[c]) /\ ~calls[c].errFired
    /\ calls[c].pendingEnd = <<"null", "value">>
    /\ calls[c].callbacks = << <<"null", "value">> >>
    /\ OkResponse(calls[d]) /\ ~calls[d].errFired
    /\ calls[d].deserFired /\ calls[d].pendingEnd = NoPair
    /\ calls[d].callbacks = << <<"ProtocolError", "undefined">> >>

\* C3: a call whose transport completes with status 404 invokes its callback
\* with NotFound, and the callback never receives the deserializer's outcome.
NotFoundDiscardsOutcome ==
  \A c \in CallIds :
    (calls[c].endFired /\ ~calls[c].res.err /\ calls[c].res.statusCode = 404
       /\ ~calls[c].errFired)
      => /\ \E i \in 1..Len(calls[c].callbacks) :
              calls[c].callbacks[i] = <<"NotFound", "undefined">>
         /\ \A i \in 1..Len(calls[c].callbacks) : calls[c].callbacks[i] \notin DeserPairs

\* C4: when the error event of a call fires before its callback has been
\* invoked, the callback is invoked with the transport error and no other
\* signal of the call invokes it.
TransportErrorSuppresses ==
  \A c \in CallIds :
    (calls[c].errFired /\ calls[c].callbacks # <<>>
       /\ Head(calls[c].callbacks) = <<"TransportError", "undefined">>)
      => calls[c].callbacks = << <<"TransportError", "undefined">> >>

\* C5: no exception leaves methodCall or a handler it registered, and a
\* failure of the Serializer or of gzip is the first argument of an invocation
\* of the call's callback.
ErrorsOnlyThroughCallback ==
  \A c \in CallIds :
    /\ calls[c].raised = "none"
    /\ calls[c].pc \in {"threw", "gzipThrew"}
         => \E i \in 1..Len(calls[c].callbacks) :
              calls[c].callbacks[i][1] \in {"EncodingError", "GzipError"}

\* C6: getCookie and setCookie throw exactly on a client constructed without
\* cookies, and a call that throws changes neither the configuration, the
\* processors, the jar, the calls in flight nor what was sent.
CookieAccessorsGuarded ==
  [][lastOp'.op \in {"getCookie", "setCookie"}
       => /\ lastOp'.threw <=> ~Truthy(ctorArgs.input.o.cookies)
          /\ (lastOp'.threw /\ lastOp' # lastOp) => UNCHANGED <<client, jar, calls, wire>>]_vars

\* setCookie has thrown on a client without cookies while a request was in flight
CookieAccessorsGuardedWitness ==
  /\ lastOp.op = "setCookie" /\ lastOp.threw
  /\ ~Truthy(ctorArgs.input.o.cookies)
  /\ \E c \in CallIds : calls[c].pc = "sent"

\* the call's response has replaced the setCookie value of n
RoundTrip(c, n) ==
  /\ client.cookies
  /\ ~calls'[c].errFired
  /\ OkResponse(calls'[c])
  /\ n \in calls'[c].overwrote

\* C7 as claimed: when the callback of a call is invoked whose response has
\* replaced the setCookie value of n by w, getCookie(n) returns w.
CookieRoundTrip ==
  [][\A c \in CallIds, n \in CookieNames :
       (RoundTrip(c, n) /\ Invoked(c)) => jar'[n] = CarriedValue(calls'[c].res, n)]_vars

\* this step is a setCookie of n, or the end event of a call other than c
\* whose response carries n
Interferes(c, n) ==
  \/ calls' = calls /\ jar'[n] \in LocalValues
  \/ \E d \in CallIds \ {c} :
       /\ ~calls[d].endFired /\ calls'[d].endFired
       /\ CarriedValue(calls'[d].res, n) # Absent

\* C7 as amended: the end event of such a call gives n the value w before the
\* callback is invoked, the callback is not invoked before the end event and
\* does not change the jar, and from the end event on n keeps w except by a
\* setCookie of n or by the response of another call that carries n.
CookieRoundTripUnlessOverwritten ==
  [][\A c \in CallIds, n \in CookieNames :
       RoundTrip(c, n) =>
         LET w == CarriedValue(calls'[c].res, n)
         IN /\ ~calls[c].endFired => (jar'[n] = w /\ calls[c].callbacks = <<>>)
            /\ (calls[c].endFired /\ jar[n] = w /\ jar'[n] # w) => Interferes(c, n)
            /\ Invoked(c) => (calls[c].endFired => jar'[n] = jar[n])]_vars

\* both orders: a call whose buffered result was delivered at the end event, and a
\* call whose result came after it, each with the server's value in the jar
CookieRoundTripWitness ==
  \E c, d \in CallIds :
    /\ c # d
    /\ calls[c].overwrote = {"a"} /\ OkResponse(calls[c]) /\ ~calls[c].errFired
    /\ calls[c].pendingEnd # NoPair /\ Len(calls[c].callbacks) = 1
    /\ calls[d].overwrote = {"a"} /\ OkResponse(calls[d]) /\ ~calls[d].errFired
    /\ calls[d].pendingEnd = NoPair /\ Len(calls[d].callbacks) = 1
    /\ jar["a"] = CarriedValue(calls[d].res, "a")

\* the Cookie header value s holds the pair n=v
CarriesCookie(header, n, v) ==
  /\ header.t = "string"
  /\ \E i \in 1..(Len(header.s) - 2) :
       header.s[i] = n /\ header.s[i + 1] = "=" /\ header.s[i + 2] = v

\* the request that the methodCall of this step built for c
BuiltRequest(c) == IF calls'[c].pc = "sent" THEN wire'.last ELSE calls'[c].request

\* C8: setCookie on a client with cookies returns the client, a methodCall
\* puts every pair n=v of the jar into the Cookie header of the request it
\* builds, and the request is sent with the headers it was built with.
CookieHeaderSent ==
  [][/\ (lastOp'.op = "setCookie" /\ ~lastOp'.threw) => lastOp'.ret = "this"
     /\ \A c \in CallIds :
          /\ (calls[c].pc = "idle" /\ calls'[c].pc \in {"sent", "gzip"} /\ client.cookies)
               => \A n \in CookieNames :
                    jar[n] # Absent => CarriesCookie(BuiltRequest(c).headers["Cookie"], n, jar[n])
          /\ (calls[c].pc = "gzip" /\ calls'[c].pc = "sent")
               => wire'.last.headers = calls[c].request.headers]_vars

\* a request was sent whose Cookie header holds the pairs of two setCookie calls
CookieHeaderSentWitness ==
  /\ wire.count > 0
  /\ lastOp.op = "methodCall"
  /\ wire.last.headers["Cookie"] = Str(<<"a", "=", "1", ";", "b", "=", "1">>)

\* the callback of call was invoked with an outcome of the deserializer
DeserializerOutcomeSeen(call) ==
  \E i \in 1..Len(call.callbacks) : call.callbacks[i] \in DeserPairs

\* C11: the callback of a call has been invoked with an outcome of the
\* deserializer only in states where the 'end' event of that call has
\* occurred, also when its 'error' event has fired.
OutcomeOnlyAfterEnd ==
  \A c \in CallIds : DeserializerOutcomeSeen(calls[c]) => calls[c].endFired

\* C12: a call whose response has no error and a status other than 404, and
\* whose request emitted no 'error', has parseResponse run exactly once, at
\* its 'end' event and before any invocation of its callback; before the
\* 'end' event parseResponse has not run.
ParseResponseOnceBeforeCallback ==
  \A c \in CallIds :
    /\ ~calls[c].endFired => calls[c].parsed = <<>>
    /\ (calls[c].endFired /\ OkResponse(calls[c]) /\ ~calls[c].errFired)
         => calls[c].parsed = <<0>>

\* both orders: the result buffered before the 'end' event and the result that
\* came after it, each delivered after the one run of parseResponse
ParseResponseOnceBeforeCallbackWitness ==
  \E c, d \in CallIds :
    /\ c # d
    /\ OkResponse(calls[c]) /\ ~calls[c].errFired /\ calls[c].pendingEnd # NoPair
    /\ calls[c].parsed = <<0>> /\ Len(calls[c].callbacks) = 1
    /\ OkResponse(calls[d]) /\ ~calls[d].errFired /\ calls[d].pendingEnd = NoPair
    /\ calls[d].parsed = <<0>> /\ Len(calls[d].callbacks) = 1

\* C13 as stated: every 'end' event of a response, the 404 included, runs
\* parseResponse.
ParseResponseOnEveryEnd ==
  \A c \in CallIds :
    (calls[c].endFired /\ ~calls[c].res.err) => calls[c].parsed # <<>>

\* C13: an 'end' event runs parseResponse, once, when the response has no
\* error and a status other than 404, whatever the deserializer reported; the
\* 'end' event of a 404 or of a failed response does not run it and leaves the
\* jar as it was.
ParseResponseOnlyOnOkEnd ==
  [][\A c \in CallIds :
       (~calls[c].endFired /\ calls'[c].endFired)
         => IF OkResponse(calls'[c])
              THEN Len(calls'[c].parsed) = 1
              ELSE calls'[c].parsed = <<>> /\ jar' = jar]_vars

\* a 404 that carried a Set-Cookie the jar did not take, next to a response
\* whose cookie the jar took although the deserializer reported an error
ParseResponseOnlyOnOkEndWitness ==
  \E c, d \in CallIds :
    /\ client.cookies
    /\ calls[c].endFired /\ ~calls[c].res.err /\ calls[c].res.statusCode = 404
    /\ CarriedValue(calls[c].res, "a") # Absent
    /\ calls[c].parsed = <<>>
    /\ OkResponse(calls[d]) /\ calls[d].deser = <<"ProtocolError", "undefined">>
    /\ calls[d].parsed # <<>>
    /\ jar["a"] = CarriedValue(calls[d].res, "a")

\* C14: after any sequence of methodCall, setCookie and response events the
\* configuration of the client, its header mapping included, is the one the
\* constructor returned: a methodCall composes its headers on a copy.
ConfigurationFrozen ==
  client.options = Client(ctorArgs.input, ctorArgs.isSecure).options

\* the 'end' event of c occurs in this step
Ends(c) == ~calls[c].endFired /\ calls'[c].endFired

Signals(c) ==
  \/ ~calls[c].errFired /\ calls'[c].errFired
  \/ Ends(c)
  \/ ~calls[c].deserFired /\ calls'[c].deserFired

\* C16: with two calls in flight, a signal of one call leaves the flag of
\* the other as it was and does not invoke the other's callback, and an
\* outcome of the deserializer that a callback receives is the one reported
\* for its own call.
CallsIndependent ==
  [][\A c \in CallIds :
       /\ Signals(c) => \A d \in CallIds \ {c} :
                          /\ calls'[d].ended = calls[d].ended
                          /\ calls'[d].callbacks = calls[d].callbacks
       /\ (Invoked(c) /\ calls'[c].callbacks[Len(calls'[c].callbacks)] \in DeserPairs)
            => calls'[c].callbacks[Len(calls'[c].callbacks)] = calls'[c].deser]_vars

\* one call has completed with its value while the other, sent as well, still
\* holds a different outcome and has neither its flag set nor its callback
\* invoked
CallsIndependentWitness ==
  \E c, d \in CallIds :
    /\ c # d
    /\ calls[c].ended /\ calls[c].errFired /\ calls[c].endFired
    /\ calls[c].callbacks # <<>> /\ calls[c].deser = <<"null", "value">>
    /\ calls[d].pc = "sent" /\ ~calls[d].ended /\ calls[d].callbacks = <<>>
    /\ calls[d].pendingEnd = <<"ProtocolError", "undefined">>

\* the bytes of s in ISO-8859-1
Latin1(s) ==
  LET RECURSIVE Enc(_)
      Enc(t) == IF t = <<>> THEN <<>>
                ELSE (IF Head(t) = "e-acute" THEN <<"e9">> ELSE <<Head(t)>>)
                       \o Enc(Tail(t))
  IN Enc(s)

\* the bytes of s in the request encoding the client is configured with
Encoded(s, encoding) == IF encoding = Str(<<"latin1">>) THEN Latin1(s) ELSE Utf8(s)

\* C17 as stated: the Content-Length of a request is the length of the body
\* sent: of the compressed buffer when gzip is 'both', and otherwise of the
\* raw body in the configured request encoding, whichever that is.
ContentLengthInConfiguredEncoding ==
  wire.count > 0 =>
    /\ wire.last.contentLength = Len(WireBytes(wire.last.body))
    /\ wire.last.contentLength =
         IF client.options.gzip = Str(<<"both">>)
           THEN Len(wire.last.body.data)
           ELSE Len(Encoded(wire.last.body.data, client.options.encoding))

\* C17: the Content-Length of a request is the number of bytes sent as its
\* body: the length of the compressed buffer when gzip is 'both', and
\* otherwise the length in UTF-8 of the raw body, which is sent as a string,
\* whatever request encoding is configured.
ContentLengthOfBodySent ==
  wire.count > 0 =>
    /\ wire.last.contentLength = Len(WireBytes(wire.last.body))
    /\ IF client.options.gzip = Str(<<"both">>)
         THEN /\ wire.last.body.sent = "buffer"
              /\ wire.last.contentLength = Len(wire.last.body.data)
         ELSE /\ wire.last.body.sent = "string"
              /\ wire.last.contentLength = Len(Utf8(wire.last.body.data))

\* a raw body with a character outside ASCII was sent by a client configured
\* with ISO-8859-1, in which the body is shorter than in UTF-8
ContentLengthOfBodySentWitness ==
  /\ wire.count > 0
  /\ client.options.encoding = Str(<<"latin1">>)
  /\ wire.last.body.sent = "string"
  /\ \E i \in 1..Len(wire.last.body.data) : wire.last.body.data[i] = "e-acute"
  /\ Len(Latin1(wire.last.body.data)) < wire.last.contentLength

\* C18: a methodCall whose serialization fails has no effect: no header is
\* composed and the configuration and the jar are as before, no request is
\* created or sent, no listener is registered and no callback invoked, then
\* or later, and the other calls are as they were.
SerializerFailureHasNoEffect ==
  [][\A c \in CallIds :
       /\ (calls[c].pc = "idle" /\ calls'[c].pc = "threw")
            => /\ client' = client /\ jar' = jar /\ wire' = wire
               /\ \A d \in CallIds \ {c} : calls'[d] = calls[d]
       /\ calls'[c].pc = "threw"
            => calls'[c] = [IdleCall EXCEPT !.pc = "threw", !.raised = "EncodingError"]]_vars

\* the serialization failed on a client whose jar holds a cookie: the
\* configuration has no Cookie header, nothing was sent, and the call has no
\* request and no signal
SerializerFailureHasNoEffectWitness ==
  /\ client.cookies /\ jar["a"] \in LocalValues
  /\ lastOp.op = "methodCall" /\ lastOp.threw
  /\ calls[1].pc = "threw" /\ calls[1].request = NoRequest /\ ~calls[1].ended
  /\ client.options.headers["Cookie"] = Undef
  /\ wire.count = 0

====
